---- MODULE Spec2Model ----
(***************************************************************************)
(* Model of AdaptiveTXWSN (src/src/AdaptiveTXWSN.h): the battery-level     *)
(* classifier with hysteresis, the hard cutoff gate and the periodic       *)
(* transmission timer of a sensor node.                                    *)
(*                                                                         *)
(* Representation.                                                         *)
(*  - A voltage (float, volts) is an integer number of millivolts and the  *)
(*    hysteresis fraction (float) an integer number of hundredths; the     *)
(*    comparisons of the classifier are evaluated exactly on these, so the *)
(*    rounding of binary floating point is not modelled.                   *)
(*  - A uint32_t is a pair <<hi, lo>> of 16-bit limbs, so that sums and    *)
(*    differences wrap modulo 2^32 exactly as in the code.                 *)
(*  - The unwrapped time of the environment is <<wraps, hi, lo>>: millis() *)
(*    returns its low 32 bits.                                             *)
(***************************************************************************)
EXTENDS Integers, Sequences, FiniteSets, TLC

VARIABLES
  configuracion,          \* Cfg _configuracion
  nivelEnergeticoActual,  \* Level _nivelEnergeticoActual
  msProximoEnvio,         \* uint32_t _msProximoEnvio
  ultimoVoltajeMedido_V,  \* float _ultimoVoltajeMedido_V
  bloqueadoPorCorte,      \* bool _bloqueadoPorCorte
  usarLecturaInyectada,   \* bool _usarLecturaInyectada
  voltajeInyectado_V,     \* float _voltajeInyectado_V
  clock,                  \* unwrapped time of the environment; millis() is its low 32 bits
  op,                     \* history: the last call: "new" (the constructor), "begin", "tick",
                          \*   "setPeriods", "setter" (any other setter) or "advance"
  ret,                    \* history: what the last tick() returned
  pre,                    \* history: the level before the last call, and whether the
                          \*   tick() before the last call was suppressed by the cutoff
  dueReal,                \* history: the unwrapped instant msProximoEnvio was scheduled for
  begun,                  \* history: begin() has been called
  ticked,                 \* history: tick() has been called
  inyectado,              \* history: the argument of the last setBatteryVolts(), or
                          \*   NoInyectado when it has not been called
  medida,                 \* history: where the measurement of the last call came from and
                          \*   its value when that call was a tick(), else SinMedida
  arranque,               \* history: 0 after begin() until a tick() passes the cutoff test,
                          \*   1 after the first such tick(), 2 after a second one that
                          \*   follows it with the same voltage, 1 and 2 lasting until a
                          \*   setter of the configuration or another tick() is called;
                          \*   else 3
  envio,                  \* history: the last tick() that returned true since begin(): its
                          \*   time and the period it selected; NoEnvio when there is none
  otra                    \* a second object that receives the same calls, or Ninguna

vars == <<configuracion, nivelEnergeticoActual, msProximoEnvio, ultimoVoltajeMedido_V,
          bloqueadoPorCorte, usarLecturaInyectada, voltajeInyectado_V, clock,
          op, ret, pre, dueReal, begun, ticked, inyectado, medida,
          arranque, envio, otra>>

(***************************************************************************)
(* Bounds of the model.                                                    *)
(***************************************************************************)
\* The clock is followed over wraps 0 .. MaxWraps of the 32-bit counter.
MaxWraps == 1

(***************************************************************************)
(* enum Level : uint8_t                                                    *)
(***************************************************************************)
BATT_LOW == 0
BATT_MID == 1
BATT_HIGH == 2
\* Any other value of the uint8_t: only an uninitialised object can hold it.
LevelOutOfRange == 3

Levels == {BATT_LOW, BATT_MID, BATT_HIGH}

(***************************************************************************)
(* uint32_t arithmetic on 16-bit limbs.                                    *)
(***************************************************************************)
Limb == 2^16

\* The uint32_t of a small natural number n < 2^31.
U32(n) == <<(n \div Limb) % Limb, n % Limb>>

\* a + b on uint32_t: the sum modulo 2^32.
U32Add(a, b) ==
  LET lo == a[2] + b[2]
      hi == a[1] + b[1] + (lo \div Limb)
  IN  <<hi % Limb, lo % Limb>>

\* a - b on uint32_t: the difference modulo 2^32.
U32Sub(a, b) ==
  LET lo == a[2] - b[2]
      borrow == IF lo < 0 THEN 1 ELSE 0
      hi == a[1] - b[1] - borrow
  IN  <<(hi + 2 * Limb) % Limb, (lo + Limb) % Limb>>

\* (int32_t)d >= 0: the sign bit of d is clear.
Int32NonNeg(d) == d[1] < Limb \div 2

(***************************************************************************)
(* Unwrapped time <<wraps, hi, lo>>.                                       *)
(***************************************************************************)
Real(w, u) == <<w, u[1], u[2]>>

Low32(t) == <<t[2], t[3]>>

\* t + p for an unwrapped instant t and a uint32_t p.
RealAdd(t, p) ==
  LET lo == t[3] + p[2]
      hi == t[2] + p[1] + (lo \div Limb)
  IN  <<t[1] + (hi \div Limb), hi % Limb, lo % Limb>>

RealLess(s, t) ==
  \/ s[1] < t[1]
  \/ s[1] = t[1] /\ s[2] < t[2]
  \/ s[1] = t[1] /\ s[2] = t[2] /\ s[3] < t[3]

RealLeq(s, t) == s = t \/ RealLess(s, t)

\* millis(): the low 32 bits of the time of the environment.
millis == Low32(clock)

(***************************************************************************)
(* struct Cfg with its default member initialisers.                        *)
(***************************************************************************)
CfgDefault ==
  [ pinAdcBateria        |-> -1,
    voltajeReferenciaAdc |-> 5000,
    divisorRArriba_k     |-> 100,
    divisorRAbajo_k      |-> 33,
    muestrasPromedioAdc  |-> 8,
    umbralAlto_V         |-> 3900,
    umbralMedio_V        |-> 3600,
    fraccionHisteresis   |-> 3,
    periodoAlto_ms       |-> U32(5000),
    periodoMedio_ms      |-> U32(15000),
    periodoBajo_ms       |-> U32(120000),
    corteVoltaje_V       |-> 3400 ]

\* A configuration that samples the battery on ADC pin 0, with a sample count of 0.
CfgPin == [CfgDefault EXCEPT !.pinAdcBateria = 0, !.muestrasPromedioAdc = 0]

(***************************************************************************)
(* The inputs the calls are made with.                                     *)
(***************************************************************************)
\* begin(cfg)
CfgSet == {CfgDefault, CfgPin}

\* setBatteryVolts(v), in millivolts: 3.35 (below the cutoff), 3.45 (in the LOW
\* band), 3.70, 3.90 (on a threshold) and 4.02.
Volts == {3350, 3450, 3700, 3900, 4020}

\* setThresholds(alto, medio): the defaults, and a pair in the wrong order.
ThresholdPairs == {<<3900, 3600>>, <<3600, 3900>>}

\* setHysteresisPct(f), in hundredths: no dead-band, and the default 3 %.
HysteresisSet == {0, 3}

\* 30 days in milliseconds, 2592000000: more than 2^31.
Period30Days == <<39550, 51200>>

\* setPeriods(alto, medio, bajo): the defaults, and periods out of order with a
\* 30-day period for the LOW level.
PeriodTriples ==
  { <<U32(5000), U32(15000), U32(120000)>>,
    <<U32(15000), U32(5000), Period30Days>> }

\* What analogRead() may return on one sample (10-bit counts).
AdcCounts == {170, 200}

\* The times of day (low 32 bits) at which calls are made: 1000, 5999, 6000
\* and 2^32 - 3000.
Offsets == { U32(1000), U32(5999), U32(6000), <<65535, 62536>> }

Instants == { Real(w, o) : w \in 0..MaxWraps, o \in Offsets }

\* The object is constructed early after power-up or shortly before the counter wraps.
BootInstants == { Real(0, U32(1000)), Real(0, <<65535, 62536>>) }

(***************************************************************************)
(* float readBatteryVolts(): the values one call may return.               *)
(***************************************************************************)
\* max((uint8_t)1, muestrasPromedioAdc)
NMuestras(cfg) == IF cfg.muestrasPromedioAdc > 1 THEN cfg.muestrasPromedioAdc ELSE 1

\* The sums the sampling loop may accumulate over n samples.
RECURSIVE AdcSums(_)
AdcSums(n) ==
  IF n = 0 THEN {0}
  ELSE { acc + c : acc \in AdcSums(n - 1), c \in AdcCounts }

\* (acc / n / 1023) * vref * (Rarriba + Rabajo) / Rabajo, in millivolts.
VoltsOfAdc(acc, n, cfg) ==
  (acc * cfg.voltajeReferenciaAdc * (cfg.divisorRArriba_k + cfg.divisorRAbajo_k))
    \div (n * 1023 * cfg.divisorRAbajo_k)

readBatteryVolts ==
  IF configuracion.pinAdcBateria < 0
  THEN {ultimoVoltajeMedido_V}
  ELSE { VoltsOfAdc(acc, NMuestras(configuracion), configuracion) :
           acc \in AdcSums(NMuestras(configuracion)) }

(***************************************************************************)
(* uint32_t currentPeriod() const                                          *)
(***************************************************************************)
\* The numeric order of two uint32_t values.
U32Less(a, b) == a[1] < b[1] \/ (a[1] = b[1] /\ a[2] < b[2])

\* Mutant of currentPeriod: enforces periodoAlto <= periodoMedio by handing the
\* smaller of the two to HIGH and the larger to MID.
currentPeriodOrdenado(nivel, cfg) ==
  LET menor == IF U32Less(cfg.periodoMedio_ms, cfg.periodoAlto_ms)
               THEN cfg.periodoMedio_ms ELSE cfg.periodoAlto_ms
      mayor == IF U32Less(cfg.periodoMedio_ms, cfg.periodoAlto_ms)
               THEN cfg.periodoAlto_ms ELSE cfg.periodoMedio_ms
  IN  CASE nivel = BATT_HIGH -> menor
        [] nivel = BATT_MID  -> mayor
        [] OTHER             -> cfg.periodoBajo_ms

currentPeriod(nivel, cfg) ==
  CASE nivel = BATT_HIGH -> cfg.periodoAlto_ms
    [] nivel = BATT_MID  -> cfg.periodoMedio_ms
    [] OTHER             -> cfg.periodoBajo_ms

(***************************************************************************)
(* void actualizarNivelConHisteresis(float): the level it leaves.          *)
(* Both sides of every comparison are scaled by 100, the denominator of    *)
(* the hysteresis fraction.                                                *)
(***************************************************************************)
\* Mutant: a stateless classification of the voltage against the thresholds.
actualizarNivelSinEstado(nivel, v, cfg) ==
  IF v >= cfg.umbralAlto_V THEN BATT_HIGH
  ELSE IF v >= cfg.umbralMedio_V THEN BATT_MID
  ELSE BATT_LOW

\* Mutant: the transitions of the state machine without the hysteresis differentials.
actualizarNivelSinHisteresis(nivel, v, cfg) ==
  CASE nivel = BATT_HIGH -> IF v < cfg.umbralAlto_V THEN BATT_MID ELSE nivel
    [] nivel = BATT_MID ->
         IF v >= cfg.umbralAlto_V THEN BATT_HIGH
         ELSE IF v < cfg.umbralMedio_V THEN BATT_LOW
         ELSE nivel
    [] nivel = BATT_LOW -> IF v >= cfg.umbralMedio_V THEN BATT_MID ELSE nivel
    [] OTHER -> nivel

\* Mutant: from MID, the test for LOW is made before the test for HIGH.
actualizarNivelBajoPrimero(nivel, v, cfg) ==
  LET diferencialAlto_V  == cfg.umbralAlto_V  * cfg.fraccionHisteresis
      diferencialMedio_V == cfg.umbralMedio_V * cfg.fraccionHisteresis
  IN  CASE nivel = BATT_HIGH ->
             IF 100 * v < 100 * cfg.umbralAlto_V - diferencialAlto_V
             THEN BATT_MID ELSE nivel
        [] nivel = BATT_MID ->
             IF 100 * v < 100 * cfg.umbralMedio_V - diferencialMedio_V THEN BATT_LOW
             ELSE IF 100 * v >= 100 * cfg.umbralAlto_V + diferencialAlto_V THEN BATT_HIGH
             ELSE nivel
        [] nivel = BATT_LOW ->
             IF 100 * v >= 100 * cfg.umbralMedio_V + diferencialMedio_V
             THEN BATT_MID ELSE nivel
        [] OTHER -> nivel

\* Mutant: the hysteresis differentials are applied with the opposite sign, so the
\* bands of the two directions of a boundary overlap.
actualizarNivelBandaInvertida(nivel, v, cfg) ==
  LET diferencialAlto_V  == cfg.umbralAlto_V  * cfg.fraccionHisteresis
      diferencialMedio_V == cfg.umbralMedio_V * cfg.fraccionHisteresis
  IN  CASE nivel = BATT_HIGH ->
             IF 100 * v < 100 * cfg.umbralAlto_V + diferencialAlto_V
             THEN BATT_MID ELSE nivel
        [] nivel = BATT_MID ->
             IF 100 * v >= 100 * cfg.umbralAlto_V - diferencialAlto_V THEN BATT_HIGH
             ELSE IF 100 * v < 100 * cfg.umbralMedio_V + diferencialMedio_V THEN BATT_LOW
             ELSE nivel
        [] nivel = BATT_LOW ->
             IF 100 * v >= 100 * cfg.umbralMedio_V - diferencialMedio_V
             THEN BATT_MID ELSE nivel
        [] OTHER -> nivel

\* Mutant: from HIGH, a voltage below the band of umbralMedio goes to LOW at once.
actualizarNivelDirecto(nivel, v, cfg) ==
  LET diferencialAlto_V  == cfg.umbralAlto_V  * cfg.fraccionHisteresis
      diferencialMedio_V == cfg.umbralMedio_V * cfg.fraccionHisteresis
  IN  CASE nivel = BATT_HIGH ->
             IF 100 * v < 100 * cfg.umbralMedio_V - diferencialMedio_V THEN BATT_LOW
             ELSE IF 100 * v < 100 * cfg.umbralAlto_V - diferencialAlto_V THEN BATT_MID
             ELSE nivel
        [] nivel = BATT_MID ->
             IF 100 * v >= 100 * cfg.umbralAlto_V + diferencialAlto_V THEN BATT_HIGH
             ELSE IF 100 * v < 100 * cfg.umbralMedio_V - diferencialMedio_V THEN BATT_LOW
             ELSE nivel
        [] nivel = BATT_LOW ->
             IF 100 * v >= 100 * cfg.umbralMedio_V + diferencialMedio_V
             THEN BATT_MID ELSE nivel
        [] OTHER -> nivel

actualizarNivelConHisteresis(nivel, v, cfg) ==
  LET diferencialAlto_V  == cfg.umbralAlto_V  * cfg.fraccionHisteresis
      diferencialMedio_V == cfg.umbralMedio_V * cfg.fraccionHisteresis
  IN  CASE nivel = BATT_HIGH ->
             IF 100 * v < 100 * cfg.umbralAlto_V - diferencialAlto_V
             THEN BATT_MID ELSE nivel
        [] nivel = BATT_MID ->
             IF 100 * v >= 100 * cfg.umbralAlto_V + diferencialAlto_V THEN BATT_HIGH
             ELSE IF 100 * v < 100 * cfg.umbralMedio_V - diferencialMedio_V THEN BATT_LOW
             ELSE nivel
        [] nivel = BATT_LOW ->
             IF 100 * v >= 100 * cfg.umbralMedio_V + diferencialMedio_V
             THEN BATT_MID ELSE nivel
        [] OTHER -> nivel

\* Mutant of TimerDue: due only at the very millisecond, ahoraMs == proximo.
TimerDueExacto(ahoraMs, proximo) == ahoraMs = proximo

\* Mutant of TimerDue: due one millisecond early, (int32_t)(ahoraMs - proximo) >= -1.
TimerDueAdelantado(ahoraMs, proximo) ==
  Int32NonNeg(U32Sub(U32Add(ahoraMs, U32(1)), proximo))

\* Mutant of TimerDue: a strict comparison, (int32_t)(ahoraMs - proximo) > 0.
TimerDueStrict(ahoraMs, proximo) ==
  Int32NonNeg(U32Sub(ahoraMs, proximo)) /\ ahoraMs # proximo

\* Mutant of TimerDue: the plain unsigned comparison ahoraMs >= proximo.
TimerDueUnsigned(ahoraMs, proximo) == ~U32Less(ahoraMs, proximo)

\* Step 4 of tick(): (int32_t)(ahoraMs - _msProximoEnvio) >= 0
TimerDue(ahoraMs, proximo) == Int32NonNeg(U32Sub(ahoraMs, proximo))

\* Mutant of BelowCutoff: the comparison reversed.
BelowCutoffReversed(v, cfg) == v > cfg.corteVoltaje_V

\* Step 2 of tick(): voltajeBateria_V < corteVoltaje_V
BelowCutoff(v, cfg) == v < cfg.corteVoltaje_V

\* Step 4 of tick(): ahoraMs + currentPeriod()
NextDue(ahoraMs, periodo) == U32Add(ahoraMs, periodo)

Snapshot == [ nivel |-> nivelEnergeticoActual, corte |-> (ticked /\ bloqueadoPorCorte) ]

\* setBatteryVolts() has not been called.
NoInyectado == <<>>

\* The last call was not a tick().
SinMedida == [ fuente |-> "ninguna", v |-> 0 ]

\* No tick() has returned true since begin().
NoEnvio == [ hay |-> FALSE, t |-> Real(0, U32(0)), periodo |-> U32(0) ]

\* Step 1 of tick(): where the measurement comes from.
FuenteMedida ==
  IF usarLecturaInyectada THEN "inyectada"
  ELSE IF configuracion.pinAdcBateria < 0 THEN "ultimo"
  ELSE "adc"

(***************************************************************************)
(* A second object of the class, as a record of its members (its          *)
(* _configuracion is configuracion: both objects are given the same        *)
(* configuration by the same calls) and of what its last tick() returned.  *)
(***************************************************************************)
Ninguna ==
  [ existe |-> FALSE, nivel |-> BATT_LOW, proximo |-> U32(0), ultimoV |-> 0,
    corte |-> FALSE, usar |-> FALSE, iny |-> 0, ret |-> FALSE ]

\* The second object after construction: one of static storage (all zero), and
\* two of automatic storage, with what the stack held.
ObjetosSinIniciar ==
  { [ existe |-> TRUE, nivel |-> BATT_LOW, proximo |-> U32(0), ultimoV |-> 0,
      corte |-> FALSE, usar |-> FALSE, iny |-> 0, ret |-> FALSE ],
    [ existe |-> TRUE, nivel |-> LevelOutOfRange, proximo |-> <<65535, 65535>>,
      ultimoV |-> 4020, corte |-> TRUE, usar |-> FALSE, iny |-> 3350, ret |-> FALSE ],
    [ existe |-> TRUE, nivel |-> BATT_MID, proximo |-> U32(0), ultimoV |-> 0,
      corte |-> FALSE, usar |-> TRUE, iny |-> 4020, ret |-> FALSE ] }

\* begin(cfg) on the object o at time ahoraMs.
beginDe(o, ahoraMs) ==
  [o EXCEPT !.nivel = BATT_HIGH, !.proximo = ahoraMs, !.ret = FALSE]

\* Step 1 of tick() on the object o: the values it may measure, v1 being what the
\* first object measured in the same call (the ADC gives both the same samples).
MedirDe(o, v1) ==
  IF o.usar THEN {o.iny}
  ELSE IF configuracion.pinAdcBateria < 0 THEN {o.ultimoV}
  ELSE IF ~usarLecturaInyectada THEN {v1}
  ELSE readBatteryVolts

\* tick() on the object o at time ahoraMs, measuring voltajeBateria_V.
tickDe(o, voltajeBateria_V, ahoraMs, cfg) ==
  IF BelowCutoff(voltajeBateria_V, cfg)
  THEN [o EXCEPT !.ultimoV = voltajeBateria_V, !.corte = TRUE, !.ret = FALSE]
  ELSE LET nivel == actualizarNivelConHisteresis(o.nivel, voltajeBateria_V, cfg)
           toca  == TimerDue(ahoraMs, o.proximo)
       IN  [o EXCEPT !.ultimoV = voltajeBateria_V,
                     !.corte = FALSE,
                     !.nivel = nivel,
                     !.proximo = IF toca THEN NextDue(ahoraMs, currentPeriod(nivel, cfg))
                                 ELSE @,
                     !.ret = toca]

\* setBatteryVolts(voltajeBateria_V) on the object o.
setBatteryVoltsDe(o, voltajeBateria_V) ==
  [o EXCEPT !.usar = TRUE, !.iny = voltajeBateria_V, !.ret = FALSE]

\* A call that changes no member of the object o (a setter of the configuration,
\* or time passing).
sinCambioDe(o) == [o EXCEPT !.ret = FALSE]

(***************************************************************************)
(* The state after construction: _configuracion holds the defaults, every  *)
(* other member is left uninitialised (zero for an object of static        *)
(* storage, anything for one on the stack or the heap).                    *)
(***************************************************************************)
Construido ==
  /\ configuracion = CfgDefault
  /\ nivelEnergeticoActual \in Levels \cup {LevelOutOfRange}
  /\ msProximoEnvio \in {U32(0), <<65535, 65535>>}
  /\ ultimoVoltajeMedido_V \in {0, 4020}
  /\ bloqueadoPorCorte \in BOOLEAN
  /\ usarLecturaInyectada \in BOOLEAN
  /\ voltajeInyectado_V \in {0, 3350}
  /\ clock \in BootInstants
  /\ op = "new"
  /\ ret = FALSE
  /\ dueReal = Real(0, msProximoEnvio)
  /\ begun = FALSE
  /\ ticked = FALSE
  /\ pre = Snapshot
  /\ inyectado = NoInyectado
  /\ medida = SinMedida
  /\ arranque = 3
  /\ envio = NoEnvio

\* One object.
Init == Construido /\ otra = Ninguna

(***************************************************************************)
(* void begin(const Cfg& cfg)                                              *)
(***************************************************************************)
\* Mutant of begin: the due time is not set.
beginSinProgramar(cfg) ==
  /\ configuracion' = cfg
  /\ nivelEnergeticoActual' = BATT_HIGH
  /\ begun' = TRUE
  /\ op' = "begin"
  /\ ret' = FALSE
  /\ pre' = Snapshot
  /\ medida' = SinMedida
  /\ arranque' = 0
  /\ envio' = NoEnvio
  /\ otra' = IF otra.existe THEN beginDe(otra, millis) ELSE otra
  /\ UNCHANGED <<msProximoEnvio, dueReal, ultimoVoltajeMedido_V, bloqueadoPorCorte,
                 usarLecturaInyectada, voltajeInyectado_V, clock, ticked, inyectado>>

begin(cfg) ==
  /\ configuracion' = cfg
  /\ nivelEnergeticoActual' = BATT_HIGH
  /\ msProximoEnvio' = millis
  /\ dueReal' = clock
  /\ begun' = TRUE
  /\ op' = "begin"
  /\ ret' = FALSE
  /\ pre' = Snapshot
  /\ medida' = SinMedida
  /\ arranque' = 0
  /\ envio' = NoEnvio
  /\ otra' = IF otra.existe THEN beginDe(otra, millis) ELSE otra
  /\ UNCHANGED <<ultimoVoltajeMedido_V, bloqueadoPorCorte, usarLecturaInyectada,
                 voltajeInyectado_V, clock, ticked, inyectado>>

(***************************************************************************)
(* bool tick()                                                             *)
(***************************************************************************)
\* Mutant of MedirBateria: a configured ADC pin is sampled even when a value has
\* been injected.
MedirBateriaPinPrimero ==
  IF usarLecturaInyectada /\ configuracion.pinAdcBateria < 0
  THEN {voltajeInyectado_V}
  ELSE readBatteryVolts

\* Step 1: the value measured, injected or read from the ADC.
MedirBateria ==
  IF usarLecturaInyectada THEN {voltajeInyectado_V} ELSE readBatteryVolts

\* Mutant of tickCorte: the cutoff also resets the level to LOW.
tickCorteReinicia ==
  /\ bloqueadoPorCorte' = TRUE
  /\ ret' = FALSE
  /\ nivelEnergeticoActual' = BATT_LOW
  /\ UNCHANGED <<msProximoEnvio, dueReal>>

\* Step 2, voltage below the cutoff: flag it and return false.
tickCorte ==
  /\ bloqueadoPorCorte' = TRUE
  /\ ret' = FALSE
  /\ UNCHANGED <<nivelEnergeticoActual, msProximoEnvio, dueReal>>

\* Mutant of tickActivo: the cutoff flag is not cleared.
tickActivoSinLimpiar(voltajeBateria_V) ==
  /\ UNCHANGED bloqueadoPorCorte
  /\ nivelEnergeticoActual' =
       actualizarNivelConHisteresis(nivelEnergeticoActual, voltajeBateria_V, configuracion)
  /\ LET ahoraMs == millis
         periodo == currentPeriod(nivelEnergeticoActual', configuracion)
     IN  IF TimerDue(ahoraMs, msProximoEnvio)
         THEN /\ msProximoEnvio' = NextDue(ahoraMs, periodo)
              /\ dueReal' = RealAdd(clock, periodo)
              /\ ret' = TRUE
         ELSE /\ ret' = FALSE
              /\ UNCHANGED <<msProximoEnvio, dueReal>>

\* Mutant of tickActivo: the due time is rescheduled on every tick, due or not.
tickActivoSiempreReprograma(voltajeBateria_V) ==
  /\ bloqueadoPorCorte' = FALSE
  /\ nivelEnergeticoActual' =
       actualizarNivelConHisteresis(nivelEnergeticoActual, voltajeBateria_V, configuracion)
  /\ LET ahoraMs == millis
         periodo == currentPeriod(nivelEnergeticoActual', configuracion)
     IN  /\ msProximoEnvio' = NextDue(ahoraMs, periodo)
         /\ dueReal' = RealAdd(clock, periodo)
         /\ ret' = TimerDue(ahoraMs, msProximoEnvio)

\* Steps 2 to 4, voltage not below the cutoff: clear the flag, classify, run the timer.
tickActivo(voltajeBateria_V) ==
  /\ bloqueadoPorCorte' = FALSE
  /\ nivelEnergeticoActual' =
       actualizarNivelConHisteresis(nivelEnergeticoActual, voltajeBateria_V, configuracion)
  /\ LET ahoraMs == millis
         periodo == currentPeriod(nivelEnergeticoActual', configuracion)
     IN  IF TimerDue(ahoraMs, msProximoEnvio)
         THEN /\ msProximoEnvio' = NextDue(ahoraMs, periodo)
              /\ dueReal' = RealAdd(clock, periodo)
              /\ ret' = TRUE
         ELSE /\ ret' = FALSE
              /\ UNCHANGED <<msProximoEnvio, dueReal>>

\* Mutant of tick: the measurement is stored only after the cutoff test has passed.
tickRegistraTrasCorte ==
  \E voltajeBateria_V \in MedirBateria :
    /\ IF BelowCutoff(voltajeBateria_V, configuracion)
       THEN tickCorte /\ UNCHANGED ultimoVoltajeMedido_V
       ELSE tickActivo(voltajeBateria_V) /\ ultimoVoltajeMedido_V' = voltajeBateria_V
    /\ op' = "tick"
    /\ pre' = Snapshot
    /\ ticked' = TRUE
    /\ medida' = [fuente |-> FuenteMedida, v |-> voltajeBateria_V]
    /\ arranque' =
         CASE arranque = 0 -> IF bloqueadoPorCorte' THEN 0 ELSE 1
           [] /\ arranque = 1
              /\ ~bloqueadoPorCorte'
              /\ ultimoVoltajeMedido_V' = ultimoVoltajeMedido_V -> 2
           [] OTHER -> 3
    /\ envio' = IF ret'
                THEN [ hay |-> TRUE, t |-> clock,
                       periodo |-> currentPeriod(nivelEnergeticoActual', configuracion) ]
                ELSE envio
    /\ IF otra.existe
       THEN \E voltajeOtra_V \in MedirDe(otra, voltajeBateria_V) :
              otra' = tickDe(otra, voltajeOtra_V, millis, configuracion)
       ELSE otra' = otra
    /\ UNCHANGED <<configuracion, usarLecturaInyectada, voltajeInyectado_V, clock, begun,
                   inyectado>>

tick ==
  \E voltajeBateria_V \in MedirBateria :
    /\ ultimoVoltajeMedido_V' = voltajeBateria_V
    /\ IF BelowCutoff(voltajeBateria_V, configuracion)
       THEN tickCorte
       ELSE tickActivo(voltajeBateria_V)
    /\ op' = "tick"
    /\ pre' = Snapshot
    /\ ticked' = TRUE
    /\ medida' = [fuente |-> FuenteMedida, v |-> voltajeBateria_V]
    /\ arranque' =
         CASE arranque = 0 -> IF bloqueadoPorCorte' THEN 0 ELSE 1
           [] /\ arranque = 1
              /\ ~bloqueadoPorCorte'
              /\ ultimoVoltajeMedido_V' = ultimoVoltajeMedido_V -> 2
           [] OTHER -> 3
    /\ envio' = IF ret'
                THEN [ hay |-> TRUE, t |-> clock,
                       periodo |-> currentPeriod(nivelEnergeticoActual', configuracion) ]
                ELSE envio
    /\ IF otra.existe
       THEN \E voltajeOtra_V \in MedirDe(otra, voltajeBateria_V) :
              otra' = tickDe(otra, voltajeOtra_V, millis, configuracion)
       ELSE otra' = otra
    /\ UNCHANGED <<configuracion, usarLecturaInyectada, voltajeInyectado_V, clock, begun,
                   inyectado>>

(***************************************************************************)
(* void setBatteryVolts(float voltajeBateria_V)                            *)
(***************************************************************************)
setBatteryVolts(voltajeBateria_V) ==
  /\ usarLecturaInyectada' = TRUE
  /\ voltajeInyectado_V' = voltajeBateria_V
  /\ op' = "setter"
  /\ ret' = FALSE
  /\ pre' = Snapshot
  /\ inyectado' = <<voltajeBateria_V>>
  /\ medida' = SinMedida
  /\ UNCHANGED <<arranque, envio>>
  /\ otra' = IF otra.existe THEN setBatteryVoltsDe(otra, voltajeBateria_V) ELSE otra
  /\ UNCHANGED <<configuracion, nivelEnergeticoActual, msProximoEnvio,
                 ultimoVoltajeMedido_V, bloqueadoPorCorte, clock, dueReal, begun, ticked>>

(***************************************************************************)
(* void setPeriods(uint32_t alto_ms, uint32_t medio_ms, uint32_t bajo_ms)  *)
(***************************************************************************)
setPeriods(alto_ms, medio_ms, bajo_ms) ==
  /\ configuracion' = [configuracion EXCEPT !.periodoAlto_ms  = alto_ms,
                                            !.periodoMedio_ms = medio_ms,
                                            !.periodoBajo_ms  = bajo_ms]
  /\ op' = "setPeriods"
  /\ ret' = FALSE
  /\ pre' = Snapshot
  /\ medida' = SinMedida
  /\ arranque' = IF arranque \in {1, 2} THEN 3 ELSE arranque
  /\ UNCHANGED envio
  /\ otra' = IF otra.existe THEN sinCambioDe(otra) ELSE otra
  /\ UNCHANGED <<nivelEnergeticoActual, msProximoEnvio, ultimoVoltajeMedido_V,
                 bloqueadoPorCorte, usarLecturaInyectada, voltajeInyectado_V, clock,
                 dueReal, begun, ticked, inyectado>>

(***************************************************************************)
(* void setThresholds(float umbralAlto_V, float umbralMedio_V)             *)
(***************************************************************************)
setThresholds(umbralAlto_V, umbralMedio_V) ==
  /\ configuracion' = [configuracion EXCEPT !.umbralAlto_V  = umbralAlto_V,
                                            !.umbralMedio_V = umbralMedio_V]
  /\ op' = "setter"
  /\ ret' = FALSE
  /\ pre' = Snapshot
  /\ medida' = SinMedida
  /\ arranque' = IF arranque \in {1, 2} THEN 3 ELSE arranque
  /\ UNCHANGED envio
  /\ otra' = IF otra.existe THEN sinCambioDe(otra) ELSE otra
  /\ UNCHANGED <<nivelEnergeticoActual, msProximoEnvio, ultimoVoltajeMedido_V,
                 bloqueadoPorCorte, usarLecturaInyectada, voltajeInyectado_V, clock,
                 dueReal, begun, ticked, inyectado>>

(***************************************************************************)
(* void setHysteresisPct(float fraccion)                                   *)
(***************************************************************************)
setHysteresisPct(fraccion) ==
  /\ configuracion' = [configuracion EXCEPT !.fraccionHisteresis = fraccion]
  /\ op' = "setter"
  /\ ret' = FALSE
  /\ pre' = Snapshot
  /\ medida' = SinMedida
  /\ arranque' = IF arranque \in {1, 2} THEN 3 ELSE arranque
  /\ UNCHANGED envio
  /\ otra' = IF otra.existe THEN sinCambioDe(otra) ELSE otra
  /\ UNCHANGED <<nivelEnergeticoActual, msProximoEnvio, ultimoVoltajeMedido_V,
                 bloqueadoPorCorte, usarLecturaInyectada, voltajeInyectado_V, clock,
                 dueReal, begun, ticked, inyectado>>

(***************************************************************************)
(* The environment: time passes between two calls.                         *)
(***************************************************************************)
Advance(t) ==
  /\ RealLess(clock, t)
  /\ clock' = t
  /\ op' = "advance"
  /\ ret' = FALSE
  /\ pre' = Snapshot
  /\ medida' = SinMedida
  /\ UNCHANGED <<arranque, envio>>
  /\ otra' = IF otra.existe THEN sinCambioDe(otra) ELSE otra
  /\ UNCHANGED <<configuracion, nivelEnergeticoActual, msProximoEnvio,
                 ultimoVoltajeMedido_V, bloqueadoPorCorte, usarLecturaInyectada,
                 voltajeInyectado_V, dueReal, begun, ticked, inyectado>>

Next ==
  \/ \E cfg \in CfgSet : begin(cfg)
  \/ tick
  \/ \E v \in Volts : setBatteryVolts(v)
  \/ \E p \in PeriodTriples : setPeriods(p[1], p[2], p[3])
  \/ \E u \in ThresholdPairs : setThresholds(u[1], u[2])
  \/ \E f \in HysteresisSet : setHysteresisPct(f)
  \/ \E t \in Instants : Advance(t)

Spec == Init /\ [][Next]_vars

(***************************************************************************)
(* Two objects: both are constructed, and every call is made on both, with *)
(* the same arguments, at the same time, with the same ADC samples.        *)
(***************************************************************************)
InitDos == Construido /\ otra \in ObjetosSinIniciar

\* setBatteryVolts(v) on two objects: below the cutoff, and 4.02 V.
VoltsDos == {3350, 4020}

NextDos ==
  \/ \E cfg \in CfgSet : begin(cfg)
  \/ tick
  \/ \E v \in VoltsDos : setBatteryVolts(v)
  \/ \E t \in Instants : Advance(t)

SpecDos == InitDos /\ [][NextDos]_vars

(***************************************************************************)
(* The loop that runs for ever: tick() is called again and again while the *)
(* clock keeps advancing.  The future is unbounded, so the clock is        *)
(* followed modulo 2^32 only (its wrap count stays 0) and it moves one or  *)
(* two steps of 2^29 ms at a time, with at least one tick() at every value *)
(* it takes: the ticks are further apart than one millisecond, and less    *)
(* than 2^31 ms apart.                                                     *)
(***************************************************************************)
\* 2^29 ms as a uint32_t.
Paso == <<Limb \div 8, 0>>

\* setBatteryVolts(v) in the loop: below the cutoff, and in the LOW, MID and HIGH bands.
VoltsVivo == {3350, 3450, 3700, 4020}

\* setPeriods(alto, medio, bajo) in the loop: the defaults, and 2^30, 3 * 2^29 and
\* 2^31 - 1 ms.
PeriodosVivo ==
  { <<U32(5000), U32(15000), U32(120000)>>,
    <<<<Limb \div 4, 0>>, <<3 * (Limb \div 8), 0>>, <<(Limb \div 2) - 1, Limb - 1>>>> }

\* The clock moves n steps on, after a tick() at the value it had.
Tictac(n) ==
  /\ op = "tick"
  /\ clock' = Real(0, IF n = 1 THEN U32Add(millis, Paso)
                      ELSE U32Add(U32Add(millis, Paso), Paso))
  /\ op' = "advance"
  /\ ret' = FALSE
  /\ pre' = Snapshot
  /\ medida' = SinMedida
  /\ otra' = IF otra.existe THEN sinCambioDe(otra) ELSE otra
  /\ UNCHANGED <<configuracion, nivelEnergeticoActual, msProximoEnvio,
                 ultimoVoltajeMedido_V, bloqueadoPorCorte, usarLecturaInyectada,
                 voltajeInyectado_V, dueReal, begun, ticked, inyectado, arranque, envio>>

Avanza == \E n \in 1..2 : Tictac(n)

InitVivo == Init /\ clock = Real(0, U32(1000))

NextVivo ==
  \/ begin(CfgDefault)
  \/ tick
  \/ \E v \in VoltsVivo : setBatteryVolts(v)
  \/ \E p \in PeriodosVivo : setPeriods(p[1], p[2], p[3])
  \/ Avanza

\* tick() is called for ever, and the clock keeps advancing.
SpecVivo == InitVivo /\ [][NextVivo]_vars /\ WF_vars(tick) /\ SF_vars(Avanza)

(***************************************************************************)
(* Vocabulary of the properties.                                           *)
(***************************************************************************)
\* The last call was a tick() that was not suppressed by the cutoff.
TickedActive == op = "tick" /\ ~bloqueadoPorCorte

\* The period configured for a level, read from the configuration fields.
ConfiguredPeriod(nivel, cfg) ==
  IF nivel = BATT_HIGH THEN cfg.periodoAlto_ms
  ELSE IF nivel = BATT_MID THEN cfg.periodoMedio_ms
  ELSE cfg.periodoBajo_ms

\* 2^31 as a uint32_t.
Two31 == <<Limb \div 2, 0>>

\* t is at or after T on the 32-bit clock: (t - T) mod 2^32 < 2^31.
WrapAtOrAfter(t, T) == U32Sub(t, T)[1] < Limb \div 2

(***************************************************************************)
(* C1. Cutoff precedence: after a tick() whose measured voltage is         *)
(* strictly below corteVoltaje_V, whatever the level and whether or not    *)
(* the timer was due, the tick returned false and isCutoff() is true.      *)
(***************************************************************************)
CutoffPrecedence ==
  (op = "tick" /\ ultimoVoltajeMedido_V < configuracion.corteVoltaje_V)
    => (~ret /\ bloqueadoPorCorte)

\* A tick at 3.35 V under a 3.40 V cutoff, at level MID, with the timer due.
CutoffPrecedenceWitness ==
  /\ begun
  /\ op = "tick"
  /\ ultimoVoltajeMedido_V = 3350
  /\ configuracion.corteVoltaje_V = 3400
  /\ nivelEnergeticoActual = BATT_MID
  /\ WrapAtOrAfter(millis, msProximoEnvio)

(***************************************************************************)
(* C2. Timer correctness.  As stated, taken where the counter has not      *)
(* wrapped between the call and the scheduled instant, so that the numeric *)
(* order of the call time and the due time T is their order in time: a     *)
(* non-cutoff tick() at a time >= T returns true and sets the due time to  *)
(* (call time + P), one at a time < T returns false and leaves the due     *)
(* time unchanged, P being the period of the level held after the          *)
(* classification step.                                                    *)
(***************************************************************************)
TimerNumericOrder ==
  [][ (begun /\ op' = "tick" /\ ~bloqueadoPorCorte' /\ clock[1] = dueReal[1]) =>
        IF ~U32Less(millis, msProximoEnvio)
        THEN ret' /\ msProximoEnvio' =
                       U32Add(millis, ConfiguredPeriod(nivelEnergeticoActual', configuracion))
        ELSE ~ret' /\ msProximoEnvio' = msProximoEnvio ]_vars

(***************************************************************************)
(* C2, amended.  A non-cutoff tick() at a time t with                      *)
(* (t - T) mod 2^32 < 2^31 returns true and sets the due time to           *)
(* (t + P) mod 2^32; any other non-cutoff tick() returns false and leaves  *)
(* the due time unchanged.                                                 *)
(***************************************************************************)
TimerWrapOrder ==
  [][ (op' = "tick" /\ ~bloqueadoPorCorte') =>
        IF WrapAtOrAfter(millis, msProximoEnvio)
        THEN ret' /\ msProximoEnvio' =
                       U32Add(millis, ConfiguredPeriod(nivelEnergeticoActual', configuracion))
        ELSE ~ret' /\ msProximoEnvio' = msProximoEnvio ]_vars

\* periodoAlto 5000, due time 6000 (set by the call at 1000): the call at 5999
\* returned false.
TimerScenarioD ==
  /\ begun
  /\ TickedActive
  /\ ~ret
  /\ clock = Real(0, U32(5999))
  /\ msProximoEnvio = U32(6000)
  /\ nivelEnergeticoActual = BATT_HIGH
  /\ configuracion.periodoAlto_ms = U32(5000)

(***************************************************************************)
(* C3. Wraparound safety.  As stated: after begin(), a non-cutoff tick()   *)
(* returns true exactly when it is made at or after the unwrapped instant  *)
(* the due time was scheduled for, for any period and any delay.           *)
(***************************************************************************)
WrapAnyDelay ==
  [][ (begun /\ op' = "tick" /\ ~bloqueadoPorCorte') =>
        (ret' <=> RealLeq(dueReal, clock)) ]_vars

(***************************************************************************)
(* C3, amended.  After begin(), a non-cutoff tick() made at or after the   *)
(* scheduled instant and less than 2^31 ms after it returns true, and one  *)
(* made before the scheduled instant by at most 2^31 ms returns false,     *)
(* also when the counter wrapped in between.                               *)
(***************************************************************************)
WrapWithinHalfRange ==
  [][ (begun /\ op' = "tick" /\ ~bloqueadoPorCorte') =>
        /\ (RealLeq(dueReal, clock) /\ RealLess(clock, RealAdd(dueReal, Two31))) => ret'
        /\ (RealLess(clock, dueReal) /\ RealLeq(dueReal, RealAdd(clock, Two31))) => ~ret'
    ]_vars

\* The due time was set to 2^32 + 2000 by a tick at 2^32 - 3000 with period 5000;
\* the counter wrapped, and the tick at 2^32 + 1000 (millis() = 1000) returned false.
WrapWitness ==
  /\ begun
  /\ TickedActive
  /\ ~ret
  /\ clock = Real(1, U32(1000))
  /\ dueReal = Real(1, U32(2000))
  /\ msProximoEnvio = U32(2000)

(***************************************************************************)
(* C4. Level transitions.  As stated: once begin() has run, the level      *)
(* changes only inside the classification step of a non-cutoff tick(),     *)
(* and every change is to an adjacent level.                               *)
(***************************************************************************)
Adjacent(a, b) == a - b = 1 \/ b - a = 1

LevelChangesOnlyInTick ==
  [][ (begun /\ nivelEnergeticoActual' # nivelEnergeticoActual) =>
        /\ op' = "tick"
        /\ ~bloqueadoPorCorte'
        /\ Adjacent(nivelEnergeticoActual, nivelEnergeticoActual') ]_vars

(***************************************************************************)
(* C4, amended.  After begin() the level is one of LOW, MID, HIGH; it      *)
(* changes only inside the classification step of a non-cutoff tick(),     *)
(* where every change is to an adjacent level, or inside begin(), which    *)
(* resets it to HIGH from whatever level it was.                           *)
(***************************************************************************)
LevelChangesInTickOrBegin ==
  begun =>
    /\ nivelEnergeticoActual \in Levels
    /\ (pre.nivel # nivelEnergeticoActual) =>
         \/ op = "begin" /\ nivelEnergeticoActual = BATT_HIGH
         \/ /\ TickedActive
            /\ pre.nivel \in Levels
            /\ Adjacent(pre.nivel, nivelEnergeticoActual)

\* A non-cutoff tick that took the level from MID to LOW, with the thresholds in
\* the wrong order and no hysteresis.
LevelChangeWitness ==
  /\ begun
  /\ TickedActive
  /\ pre.nivel = BATT_MID
  /\ nivelEnergeticoActual = BATT_LOW
  /\ configuracion.umbralAlto_V < configuracion.umbralMedio_V
  /\ configuracion.fraccionHisteresis = 0

(***************************************************************************)
(* C5. The due time.  As stated: once begin() has run, in every call other *)
(* than begin() the due time changes only in a tick() that returns true,   *)
(* and the instant it is scheduled for never moves backward.               *)
(***************************************************************************)
DueOnlyForward ==
  [][ (begun /\ op' # "begin") =>
        /\ (msProximoEnvio' # msProximoEnvio \/ dueReal' # dueReal) => (op' = "tick" /\ ret')
        /\ RealLeq(dueReal, dueReal') ]_vars

(***************************************************************************)
(* C5, amended.  The due time changes only in a tick() that returns true   *)
(* and in begin(), which sets it to the current time.  Such a tick() sets  *)
(* it to (call time + period) mod 2^32, and the instant it is scheduled    *)
(* for does not move backward when the tick() fires at or after the        *)
(* instant scheduled before.  Every tick() that returns false, also one    *)
(* whose classification step changed the level, and every setter leaves    *)
(* the due time unchanged.                                                 *)
(***************************************************************************)
DueChangesOnlyOnFire ==
  [][ /\ (op' = "begin") => (msProximoEnvio' = millis)
      /\ (op' # "begin") =>
           /\ (msProximoEnvio' # msProximoEnvio \/ dueReal' # dueReal) => (op' = "tick" /\ ret')
           /\ (op' = "tick" /\ ret') =>
                /\ msProximoEnvio' =
                     U32Add(millis, ConfiguredPeriod(nivelEnergeticoActual', configuracion))
                /\ RealLeq(dueReal, clock) => RealLeq(dueReal, dueReal') ]_vars

\* A non-cutoff tick that changed the level and returned false: the due time,
\* set by a tick at 1000 with period 5000, is still 6000.
DueKeptWitness ==
  /\ begun
  /\ TickedActive
  /\ ~ret
  /\ pre.nivel = BATT_HIGH
  /\ nivelEnergeticoActual = BATT_MID
  /\ clock = Real(0, U32(5999))
  /\ msProximoEnvio = U32(6000)

(***************************************************************************)
(* C6. No stale cutoff: after every tick(), isCutoff() is true if and only *)
(* if the voltage measured in that tick is strictly below corteVoltaje_V.  *)
(***************************************************************************)
CutoffFlagFresh ==
  (op = "tick") =>
    (bloqueadoPorCorte <=> ultimoVoltajeMedido_V < configuracion.corteVoltaje_V)

\* The tick before was suppressed by the cutoff; this one measured a voltage at or
\* above the cutoff and left the flag false.
CutoffClearedWitness ==
  /\ begun
  /\ op = "tick"
  /\ pre.corte
  /\ ultimoVoltajeMedido_V >= configuracion.corteVoltaje_V
  /\ ~bloqueadoPorCorte

(***************************************************************************)
(* The dead-band of a level and the thresholds on its boundary, as the     *)
(* specification writes them, scaled by 100.                               *)
(***************************************************************************)
InDeadBand(nivel, v, cfg) ==
  LET h == cfg.fraccionHisteresis
  IN  CASE nivel = BATT_HIGH -> 100 * v >= cfg.umbralAlto_V * (100 - h)
        [] nivel = BATT_MID  -> /\ cfg.umbralMedio_V * (100 - h) <= 100 * v
                                /\ 100 * v < cfg.umbralAlto_V * (100 + h)
        [] nivel = BATT_LOW  -> 100 * v < cfg.umbralMedio_V * (100 + h)
        [] OTHER -> FALSE

OnOwnThreshold(nivel, v, cfg) ==
  CASE nivel = BATT_HIGH -> v = cfg.umbralAlto_V
    [] nivel = BATT_MID  -> v = cfg.umbralAlto_V \/ v = cfg.umbralMedio_V
    [] nivel = BATT_LOW  -> v = cfg.umbralMedio_V
    [] OTHER -> FALSE

ThresholdsInOrder(cfg) == 0 < cfg.umbralMedio_V /\ cfg.umbralMedio_V <= cfg.umbralAlto_V

(***************************************************************************)
(* C7. No chatter.  As stated: after begin(), a non-cutoff tick() whose    *)
(* voltage is inside the dead-band of the level leaves the level           *)
(* unchanged, and so does one                                              *)
(* whose voltage sits exactly on a threshold of the level (taken here with *)
(* the thresholds in order and a hysteresis fraction >= 0).                *)
(***************************************************************************)
NoChatterOnThreshold ==
  [][ (begun /\ op' = "tick" /\ ~bloqueadoPorCorte') =>
        /\ InDeadBand(nivelEnergeticoActual, ultimoVoltajeMedido_V', configuracion)
             => nivelEnergeticoActual' = nivelEnergeticoActual
        /\ ( /\ ThresholdsInOrder(configuracion)
             /\ configuracion.fraccionHisteresis >= 0
             /\ OnOwnThreshold(nivelEnergeticoActual, ultimoVoltajeMedido_V', configuracion) )
             => nivelEnergeticoActual' = nivelEnergeticoActual ]_vars

(***************************************************************************)
(* C7, amended.  A non-cutoff tick() whose voltage is inside the dead-band *)
(* of the level leaves the level unchanged; with a hysteresis fraction     *)
(* > 0 and thresholds 0 < medio <= alto, a voltage exactly on a threshold  *)
(* of the level is inside its dead-band and leaves the level unchanged.    *)
(***************************************************************************)
NoChatterInDeadBand ==
  [][ (op' = "tick" /\ ~bloqueadoPorCorte') =>
        /\ InDeadBand(nivelEnergeticoActual, ultimoVoltajeMedido_V', configuracion)
             => nivelEnergeticoActual' = nivelEnergeticoActual
        /\ ( /\ ThresholdsInOrder(configuracion)
             /\ configuracion.fraccionHisteresis > 0
             /\ OnOwnThreshold(nivelEnergeticoActual, ultimoVoltajeMedido_V', configuracion) )
             => /\ InDeadBand(nivelEnergeticoActual, ultimoVoltajeMedido_V', configuracion)
                /\ nivelEnergeticoActual' = nivelEnergeticoActual ]_vars

\* At MID with thresholds 3.90 / 3.60 and 3 % hysteresis, a tick measured exactly
\* 3.90 V and the level is still MID.
NoChatterWitness ==
  /\ begun
  /\ TickedActive
  /\ pre.nivel = BATT_MID
  /\ nivelEnergeticoActual = BATT_MID
  /\ ultimoVoltajeMedido_V = 3900
  /\ configuracion.umbralAlto_V = 3900
  /\ configuracion.umbralMedio_V = 3600
  /\ configuracion.fraccionHisteresis = 3

(***************************************************************************)
(* The transition function of the specification, scaled by 100.            *)
(***************************************************************************)
SpecTransition(nivel, v, cfg) ==
  LET h == cfg.fraccionHisteresis
  IN  CASE nivel = BATT_HIGH ->
             IF 100 * v < cfg.umbralAlto_V * (100 - h) THEN BATT_MID ELSE BATT_HIGH
        [] nivel = BATT_MID ->
             IF 100 * v >= cfg.umbralAlto_V * (100 + h) THEN BATT_HIGH
             ELSE IF 100 * v < cfg.umbralMedio_V * (100 - h) THEN BATT_LOW
             ELSE BATT_MID
        [] nivel = BATT_LOW ->
             IF 100 * v >= cfg.umbralMedio_V * (100 + h) THEN BATT_MID ELSE BATT_LOW

(***************************************************************************)
(* C8. The classification step of a non-cutoff tick() takes a level LOW,   *)
(* MID or HIGH to the level the transition function of the specification   *)
(* gives; with 3.90 / 3.60 / 0.03: from HIGH 3.95 stays HIGH and 3.70 goes *)
(* to MID, from MID 4.02 goes to HIGH.                                     *)
(***************************************************************************)
ClassificationIsSpecTransition ==
  [][ (op' = "tick" /\ ~bloqueadoPorCorte' /\ nivelEnergeticoActual \in Levels) =>
        /\ nivelEnergeticoActual' =
             SpecTransition(nivelEnergeticoActual, ultimoVoltajeMedido_V', configuracion)
        /\ actualizarNivelConHisteresis(BATT_HIGH, 3950, CfgDefault) = BATT_HIGH
        /\ actualizarNivelConHisteresis(BATT_HIGH, 3700, CfgDefault) = BATT_MID
        /\ actualizarNivelConHisteresis(BATT_MID, 4020, CfgDefault) = BATT_HIGH ]_vars

\* Scenario B: at MID with 3.90 / 3.60 / 0.03, a tick measured 4.02 V and the
\* level is HIGH.
ClassificationWitness ==
  /\ begun
  /\ TickedActive
  /\ pre.nivel = BATT_MID
  /\ nivelEnergeticoActual = BATT_HIGH
  /\ ultimoVoltajeMedido_V = 4020
  /\ configuracion.umbralAlto_V = 3900
  /\ configuracion.umbralMedio_V = 3600
  /\ configuracion.fraccionHisteresis = 3

(***************************************************************************)
(* C9. A tick() suppressed by the cutoff leaves the level and the due time *)
(* unchanged, so the first tick() at or above the cutoff classifies from   *)
(* the level held before the cutoff phase.                                 *)
(***************************************************************************)
CutoffSkipsLevelAndTimer ==
  [][ (op' = "tick" /\ bloqueadoPorCorte') =>
        /\ nivelEnergeticoActual' = nivelEnergeticoActual
        /\ msProximoEnvio' = msProximoEnvio ]_vars

\* The tick before was suppressed by the cutoff while the level was LOW; this one
\* measured 3.45 V, classified from LOW and stayed there.
CutoffRecoveryWitness ==
  /\ begun
  /\ TickedActive
  /\ pre.corte
  /\ pre.nivel = BATT_LOW
  /\ nivelEnergeticoActual = BATT_LOW
  /\ ultimoVoltajeMedido_V = 3450

(***************************************************************************)
(* C10. Period selection: currentPeriod() is periodoAlto_ms at HIGH,       *)
(* periodoMedio_ms at MID and periodoBajo_ms at LOW, whatever their order; *)
(* a tick() that fires schedules with exactly that period, and             *)
(* setPeriods() stores its three arguments in the order given.             *)
(***************************************************************************)
PeriodIsConfigured ==
  /\ (nivelEnergeticoActual = BATT_HIGH) =>
       currentPeriod(nivelEnergeticoActual, configuracion) = configuracion.periodoAlto_ms
  /\ (nivelEnergeticoActual = BATT_MID) =>
       currentPeriod(nivelEnergeticoActual, configuracion) = configuracion.periodoMedio_ms
  /\ (nivelEnergeticoActual = BATT_LOW) =>
       currentPeriod(nivelEnergeticoActual, configuracion) = configuracion.periodoBajo_ms
  /\ (op = "tick" /\ ret) =>
       msProximoEnvio =
         U32Add(millis, ConfiguredPeriod(nivelEnergeticoActual, configuracion))
  /\ (op = "setPeriods") =>
       <<configuracion.periodoAlto_ms, configuracion.periodoMedio_ms,
         configuracion.periodoBajo_ms>> \in PeriodTriples

\* Periods out of order (HIGH 15000, MID 5000): a tick that fired at level MID
\* scheduled the next transmission 5000 ms ahead.
PeriodWitness ==
  /\ begun
  /\ TickedActive
  /\ ret
  /\ nivelEnergeticoActual = BATT_MID
  /\ configuracion.periodoAlto_ms = U32(15000)
  /\ configuracion.periodoMedio_ms = U32(5000)
  /\ msProximoEnvio = U32Add(millis, U32(5000))

(***************************************************************************)
(* C11. Injected values take precedence: once setBatteryVolts(v) has been  *)
(* called, every later tick() measures the value of the most recent call   *)
(* (lastVolts() is that value after the tick) and does not sample the ADC, *)
(* with or without an ADC pin configured.                                  *)
(***************************************************************************)
InjectedTakesPrecedence ==
  (op = "tick" /\ inyectado # NoInyectado) =>
    /\ ultimoVoltajeMedido_V = inyectado[1]
    /\ medida.fuente = "inyectada"
    /\ medida.v = inyectado[1]

\* With ADC pin 0 configured, 3.70 V was injected and the tick measured 3.70 V.
InjectedWitness ==
  /\ begun
  /\ op = "tick"
  /\ inyectado = <<3700>>
  /\ configuracion.pinAdcBateria >= 0
  /\ ultimoVoltajeMedido_V = 3700

(***************************************************************************)
(* C12. lastVolts() is the most recent measurement: after every tick() it  *)
(* is the voltage measured in that tick, also when the tick was suppressed *)
(* by the cutoff.                                                          *)
(***************************************************************************)
LastVoltsIsMeasurement ==
  (op = "tick") => ultimoVoltajeMedido_V = medida.v

\* A tick suppressed by the cutoff: the ADC gave 170 counts, 3.348 V, and that is
\* what lastVolts() returns; before it, lastVolts() was 4.02 V.
LastVoltsWitness ==
  /\ begun
  /\ op = "tick"
  /\ bloqueadoPorCorte
  /\ medida = [fuente |-> "adc", v |-> 3348]
  /\ ultimoVoltajeMedido_V = 3348

(***************************************************************************)
(* C13. Missing pin: with no ADC pin configured and setBatteryVolts()      *)
(* never called, a tick() measures the last known voltage, so lastVolts()  *)
(* does not change in the tick and the tick takes the same cutoff decision *)
(* as the tick before it.                                                  *)
(***************************************************************************)
MissingPinKeepsVoltage ==
  [][ (begun /\ op' = "tick" /\ configuracion.pinAdcBateria < 0 /\ inyectado = NoInyectado) =>
        /\ medida'.v = ultimoVoltajeMedido_V
        /\ ultimoVoltajeMedido_V' = ultimoVoltajeMedido_V
        /\ ticked => (bloqueadoPorCorte' = bloqueadoPorCorte) ]_vars

(***************************************************************************)
(* C14. Initialization.  As stated: begin() sets the level to HIGH and the *)
(* due time to the current time, and the first tick() after begin() whose  *)
(* voltage is not below the cutoff returns true and sets the due time to   *)
(* (call time + period of the level after its classification step).        *)
(***************************************************************************)
FirstTickFires ==
  [][ /\ (op' = "begin") =>
           (nivelEnergeticoActual' = BATT_HIGH /\ msProximoEnvio' = millis)
      /\ (arranque = 0 /\ op' = "tick" /\ ~bloqueadoPorCorte') =>
           /\ ret'
           /\ msProximoEnvio' =
                U32Add(millis, ConfiguredPeriod(nivelEnergeticoActual', configuracion)) ]_vars

(***************************************************************************)
(* C14, amended.  begin() sets the level to HIGH and the due time to the   *)
(* current time; the level is still HIGH when the first tick() whose       *)
(* voltage is not below the cutoff classifies, and that tick(), when made  *)
(* less than 2^31 ms after begin(), returns true and sets the due time to  *)
(* (call time + period of the level after its classification step)         *)
(* mod 2^32.                                                               *)
(***************************************************************************)
FirstTickFiresWithinHalfRange ==
  [][ /\ (op' = "begin") =>
           (nivelEnergeticoActual' = BATT_HIGH /\ msProximoEnvio' = millis)
      /\ (arranque = 0 /\ op' = "tick" /\ ~bloqueadoPorCorte') =>
           /\ nivelEnergeticoActual = BATT_HIGH
           /\ RealLeq(dueReal, clock)
           /\ RealLess(clock, RealAdd(dueReal, Two31)) =>
                /\ ret'
                /\ msProximoEnvio' =
                     U32Add(millis, ConfiguredPeriod(nivelEnergeticoActual', configuracion))
    ]_vars

\* After begin() the ticks were suppressed by the cutoff; the first one that was not
\* took the level to MID, returned true and scheduled 15000 ms ahead.
FirstTickWitness ==
  /\ begun
  /\ TickedActive
  /\ arranque = 1
  /\ pre.corte
  /\ ret
  /\ nivelEnergeticoActual = BATT_MID
  /\ configuracion.periodoMedio_ms = U32(15000)
  /\ msProximoEnvio = U32Add(millis, U32(15000))

(***************************************************************************)
(* C15. Determinism: two objects started with begin() on the same          *)
(* configuration and driven by the same calls, with the same clock values  *)
(* and the same voltage inputs, return the same from every tick() and have *)
(* the same level(), isCutoff(), lastVolts() and currentPeriod() after     *)
(* every call, also with no voltage injected and no ADC pin configured.    *)
(***************************************************************************)
Determinism ==
  (begun /\ otra.existe) =>
    /\ otra.nivel = nivelEnergeticoActual
    /\ otra.corte = bloqueadoPorCorte
    /\ otra.ultimoV = ultimoVoltajeMedido_V
    /\ currentPeriod(otra.nivel, configuracion)
         = currentPeriod(nivelEnergeticoActual, configuracion)
    /\ (op = "tick") => (otra.ret = ret)

\* Both thresholds are positive and the hysteresis fraction is not negative.
ThresholdsPositive(cfg) ==
  /\ cfg.umbralAlto_V > 0
  /\ cfg.umbralMedio_V > 0
  /\ cfg.fraccionHisteresis >= 0

NoReversalAtConstantVoltage ==
  [][ ( /\ TickedActive
        /\ op' = "tick"
        /\ ~bloqueadoPorCorte'
        /\ ultimoVoltajeMedido_V' = ultimoVoltajeMedido_V
        /\ ThresholdsPositive(configuracion) ) =>
        /\ ~(pre.nivel < nivelEnergeticoActual /\ nivelEnergeticoActual' < nivelEnergeticoActual)
        /\ ~(pre.nivel > nivelEnergeticoActual /\ nivelEnergeticoActual' > nivelEnergeticoActual)
        /\ (pre.nivel = nivelEnergeticoActual) =>
             (nivelEnergeticoActual' = nivelEnergeticoActual)
        /\ (nivelEnergeticoActual' \in Levels) =>
             SpecTransition(nivelEnergeticoActual', ultimoVoltajeMedido_V', configuracion)
               = nivelEnergeticoActual' ]_vars

\* begin(), then two ticks at 3.70 V with thresholds 3.90 / 3.60 and 3 %: the
\* first took the level from HIGH to MID, the second left it at MID.
NoReversalWitness ==
  /\ begun
  /\ TickedActive
  /\ arranque = 2
  /\ pre.nivel = BATT_MID
  /\ nivelEnergeticoActual = BATT_MID
  /\ ultimoVoltajeMedido_V = 3700
  /\ configuracion.umbralAlto_V = 3900
  /\ configuracion.umbralMedio_V = 3600
  /\ configuracion.fraccionHisteresis = 3

(***************************************************************************)
(* C18. Minimum spacing: when a tick() returned true at t1 with the period *)
(* P < 2^31 it selected, and the next tick() that returns true, with no    *)
(* begin() in between, is made at t2 less than 2^31 ms after t1, then      *)
(* t2 - t1 >= P.  So after a long gap without ticks or after a cutoff      *)
(* phase one tick() returns true, and the tick() right after it, with a    *)
(* period of 1 .. 2^31 - 1 ms, returns false.                              *)
(***************************************************************************)
MinimumSpacing ==
  [][ /\ ( /\ op' = "tick"
           /\ ret'
           /\ envio.hay
           /\ U32Less(envio.periodo, Two31)
           /\ RealLess(clock, RealAdd(envio.t, Two31)) ) =>
           RealLeq(RealAdd(envio.t, envio.periodo), clock)
      /\ ( /\ op = "tick"
           /\ ret
           /\ op' = "tick"
           /\ U32Less(U32(0), envio.periodo)
           /\ U32Less(envio.periodo, Two31) ) =>
           ~ret' ]_vars

\* The second tick that returned true since begin(), made at 6000 after a tick
\* suppressed by the cutoff: the first one was made at 1000 and selected 5000 ms
\* (one made later, or with a longer period, leaves nothing due at 6000).
MinimumSpacingWitness ==
  /\ begun
  /\ TickedActive
  /\ ret
  /\ arranque = 3
  /\ pre.corte
  /\ clock = Real(0, U32(6000))
  /\ envio.t = clock
  /\ msProximoEnvio = U32Add(millis, envio.periodo)

(***************************************************************************)
(* C19. Liveness while energy is available: if from some point on every    *)
(* tick() measures a voltage that is not below the cutoff, while the clock *)
(* keeps advancing and tick() keeps being called at every clock value,     *)
(* then tick() returns true again and again, at every level and with       *)
(* every period below 2^31 ms.                                             *)
(***************************************************************************)
TransmitsAgainAndAgain ==
  (<>[](op = "tick" => ~bloqueadoPorCorte)) => []<>(op = "tick" /\ ret)

\* At level LOW with a period of 2^31 - 1 ms, a tick returned true that was not the
\* first one to pass the cutoff test since begin().
TransmitsAgainWitness ==
  /\ begun
  /\ TickedActive
  /\ ret
  /\ arranque = 3
  /\ nivelEnergeticoActual = BATT_LOW
  /\ envio.periodo = <<(Limb \div 2) - 1, Limb - 1>>
  /\ envio.t = clock

====
